---- MODULE Spec2Model ----
(***************************************************************************)
(* A model of the mem-barrier crate: the public classification types, the  *)
(* dispatcher mem_barrier, the compiler-only barrier, the three            *)
(* architecture backends with their intrinsic and inline-assembly          *)
(* variants, and the build-time selection of backend and variant.          *)
(*                                                                         *)
(* A build configuration (target_arch, the cargo features stdarch and      *)
(* nightly, the toolchain channel) is fixed in the initial state.  Build   *)
(* resolves the conditional compilation.  Under Spec the smoke loop of the *)
(* test and of the example then calls mem_barrier for the 12 pairs on one  *)
(* machine; under ConcSpec several execution contexts call it in any order.*)
(***************************************************************************)
EXTENDS Integers, Sequences, FiniteSets

VARIABLES
    target_arch,  \* cfg(target_arch = ...)
    stdarch,      \* cfg(feature = "stdarch")
    nightly,      \* cfg(feature = "nightly")
    toolchain,    \* the compiler channel: "stable" or "nightly"
    build,        \* "pending", "ok" or "failed"
    pc,           \* position of the smoke loop: "loop" or "done"
    ki,           \* index of the outer loop, over the kinds
    ti,           \* index of the inner loop, over the types
    trace,        \* the calls the smoke loop has made, in order
    machine,      \* the machine the smoke loop runs on
    log           \* the calls made by the execution contexts, in order

vars == <<target_arch, stdarch, nightly, toolchain, build, pc, ki, ti, trace, machine, log>>

(* ------------------------------------------------------------------ bounds *)

\* Registers, flags, stack pointer and memory each hold a value in 0..MaxWord.
MaxWord == 1
\* Calls the execution contexts of ConcSpec make in total.
MaxCalls == 2

(* ------------------------------------------------- classification types *)

BarrierKind == {"Mmio", "Smp", "Dma", "Compiler"}

BarrierType == {"General", "Read", "Write"}

CpuBarrierKind == {"Mmio", "Smp", "Dma"}

\* The arrays the smoke loop iterates over.
LoopKinds == <<"Mmio", "Smp", "Dma", "Compiler">>

LoopTypes == <<"General", "Read", "Write">>

(* ----------------------------------------------------------- statements *)

\* An asm! invocation with no operands: its template and its options.
Asm(template) ==
    [form |-> "asm", name |-> template, arg |-> "",
     options |-> {"preserves_flags", "nostack"}]

\* A call of a core::arch intrinsic with its argument ("" when it takes none).
Intrinsic(fn, a) ==
    [form |-> "intrinsic", name |-> fn, arg |-> a, options |-> {}]

NoStmt == [form |-> "none", name |-> "", arg |-> "", options |-> {}]

(* ---------------------------------------------------- backend match arms *)

\* One arm of a backend's match: the patterns and the statement it runs.
Arm(ks, ts, s) == [kinds |-> ks, tys |-> ts, stmt |-> s]

\* Faulty variant, for sensitivity: (Dma, Read) passes the store option.
aarch64_intrinsic_arms_slip == <<
    Arm({"Mmio"}, {"General"}, Intrinsic("__dsb", "SY")),
    Arm({"Mmio"}, {"Read"},    Intrinsic("__dsb", "LD")),
    Arm({"Mmio"}, {"Write"},   Intrinsic("__dsb", "ST")),
    Arm({"Smp"},  {"General"}, Intrinsic("__dmb", "ISH")),
    Arm({"Smp"},  {"Read"},    Intrinsic("__dmb", "ISHLD")),
    Arm({"Smp"},  {"Write"},   Intrinsic("__dmb", "ISHST")),
    Arm({"Dma"},  {"General"}, Intrinsic("__dmb", "OSH")),
    Arm({"Dma"},  {"Read"},    Intrinsic("__dmb", "OSHST")),
    Arm({"Dma"},  {"Write"},   Intrinsic("__dmb", "OSHST")) >>

aarch64_intrinsic_arms == <<
    Arm({"Mmio"}, {"General"}, Intrinsic("__dsb", "SY")),
    Arm({"Mmio"}, {"Read"},    Intrinsic("__dsb", "LD")),
    Arm({"Mmio"}, {"Write"},   Intrinsic("__dsb", "ST")),
    Arm({"Smp"},  {"General"}, Intrinsic("__dmb", "ISH")),
    Arm({"Smp"},  {"Read"},    Intrinsic("__dmb", "ISHLD")),
    Arm({"Smp"},  {"Write"},   Intrinsic("__dmb", "ISHST")),
    Arm({"Dma"},  {"General"}, Intrinsic("__dmb", "OSH")),
    Arm({"Dma"},  {"Read"},    Intrinsic("__dmb", "OSHLD")),
    Arm({"Dma"},  {"Write"},   Intrinsic("__dmb", "OSHST")) >>

\* Faulty variant, for sensitivity: Mmio runs the inner-shareable DMB that Smp runs.
aarch64_asm_arms_mmio_dmb == <<
    Arm({"Mmio"}, {"General"}, Asm("dmb ish")),
    Arm({"Mmio"}, {"Read"},    Asm("dmb ishld")),
    Arm({"Mmio"}, {"Write"},   Asm("dmb ishst")),
    Arm({"Smp"},  {"General"}, Asm("dmb ish")),
    Arm({"Smp"},  {"Read"},    Asm("dmb ishld")),
    Arm({"Smp"},  {"Write"},   Asm("dmb ishst")),
    Arm({"Dma"},  {"General"}, Asm("dmb osh")),
    Arm({"Dma"},  {"Read"},    Asm("dmb oshld")),
    Arm({"Dma"},  {"Write"},   Asm("dmb oshst")) >>

\* Faulty variant, for sensitivity: the fallback for Smp is a compiler barrier only.
aarch64_asm_arms_smp_noop == <<
    Arm({"Mmio"}, {"General"}, Asm("dsb sy")),
    Arm({"Mmio"}, {"Read"},    Asm("dsb ld")),
    Arm({"Mmio"}, {"Write"},   Asm("dsb st")),
    Arm({"Smp"},  BarrierType, Asm("")),
    Arm({"Dma"},  {"General"}, Asm("dmb osh")),
    Arm({"Dma"},  {"Read"},    Asm("dmb oshld")),
    Arm({"Dma"},  {"Write"},   Asm("dmb oshst")) >>

aarch64_asm_arms == <<
    Arm({"Mmio"}, {"General"}, Asm("dsb sy")),
    Arm({"Mmio"}, {"Read"},    Asm("dsb ld")),
    Arm({"Mmio"}, {"Write"},   Asm("dsb st")),
    Arm({"Smp"},  {"General"}, Asm("dmb ish")),
    Arm({"Smp"},  {"Read"},    Asm("dmb ishld")),
    Arm({"Smp"},  {"Write"},   Asm("dmb ishst")),
    Arm({"Dma"},  {"General"}, Asm("dmb osh")),
    Arm({"Dma"},  {"Read"},    Asm("dmb oshld")),
    Arm({"Dma"},  {"Write"},   Asm("dmb oshst")) >>

\* Faulty variant, for sensitivity: the arm for (Smp, Write) is missing.
riscv_arms_missing_arm == <<
    Arm({"Mmio", "Dma"}, {"General"}, Asm("fence iorw, iorw")),
    Arm({"Mmio", "Dma"}, {"Read"},    Asm("fence ir, ir")),
    Arm({"Mmio", "Dma"}, {"Write"},   Asm("fence ow, ow")),
    Arm({"Smp"},         {"General"}, Asm("fence rw, rw")),
    Arm({"Smp"},         {"Read"},    Asm("fence r, r")) >>

\* Faulty variant, for sensitivity: General for Mmio and Dma leaves out the I/O bits.
riscv_arms_weak_general == <<
    Arm({"Mmio", "Dma"}, {"General"}, Asm("fence rw, rw")),
    Arm({"Mmio", "Dma"}, {"Read"},    Asm("fence ir, ir")),
    Arm({"Mmio", "Dma"}, {"Write"},   Asm("fence ow, ow")),
    Arm({"Smp"},         {"General"}, Asm("fence rw, rw")),
    Arm({"Smp"},         {"Read"},    Asm("fence r, r")),
    Arm({"Smp"},         {"Write"},   Asm("fence w, w")) >>

\* Faulty variant, for sensitivity: Dma is grouped with Smp instead of with Mmio.
riscv_arms_dma_as_smp == <<
    Arm({"Mmio"},        {"General"}, Asm("fence iorw, iorw")),
    Arm({"Mmio"},        {"Read"},    Asm("fence ir, ir")),
    Arm({"Mmio"},        {"Write"},   Asm("fence ow, ow")),
    Arm({"Smp", "Dma"},  {"General"}, Asm("fence rw, rw")),
    Arm({"Smp", "Dma"},  {"Read"},    Asm("fence r, r")),
    Arm({"Smp", "Dma"},  {"Write"},   Asm("fence w, w")) >>

riscv_arms == <<
    Arm({"Mmio", "Dma"}, {"General"}, Asm("fence iorw, iorw")),
    Arm({"Mmio", "Dma"}, {"Read"},    Asm("fence ir, ir")),
    Arm({"Mmio", "Dma"}, {"Write"},   Asm("fence ow, ow")),
    Arm({"Smp"},         {"General"}, Asm("fence rw, rw")),
    Arm({"Smp"},         {"Read"},    Asm("fence r, r")),
    Arm({"Smp"},         {"Write"},   Asm("fence w, w")) >>

\* The x86 backends take _kind and match on ty alone.
x86_intrinsic_arms == <<
    Arm(CpuBarrierKind, {"General"}, Intrinsic("_mm_mfence", "")),
    Arm(CpuBarrierKind, {"Read"},    Intrinsic("_mm_lfence", "")),
    Arm(CpuBarrierKind, {"Write"},   Intrinsic("_mm_sfence", "")) >>

\* Faulty variant, for sensitivity: Smp reads and writes get a compiler barrier only.
x86_asm_arms_smp_relaxed == <<
    Arm({"Smp"},        {"Read", "Write"}, Asm("")),
    Arm(CpuBarrierKind, {"General"}, Asm("mfence")),
    Arm(CpuBarrierKind, {"Read"},    Asm("lfence")),
    Arm(CpuBarrierKind, {"Write"},   Asm("sfence")) >>

x86_asm_arms == <<
    Arm(CpuBarrierKind, {"General"}, Asm("mfence")),
    Arm(CpuBarrierKind, {"Read"},    Asm("lfence")),
    Arm(CpuBarrierKind, {"Write"},   Asm("sfence")) >>

\* The arms of `arms` whose patterns match (kind, ty).
Matching(arms, kind, ty) ==
    {n \in DOMAIN arms : kind \in arms[n].kinds /\ ty \in arms[n].tys}

\* A match runs its first matching arm.
Match(arms, kind, ty) ==
    LET hit == Matching(arms, kind, ty)
    IN  IF hit = {} THEN NoStmt
        ELSE arms[CHOOSE n \in hit : \A m \in hit : n <= m].stmt

\* The compiler accepts a match only if every value has an arm.
Exhaustive(arms) ==
    \A kind \in CpuBarrierKind : \A ty \in BarrierType : Matching(arms, kind, ty) # {}

(* ------------------------------------------------- machine instructions *)

\* A machine instruction: its mnemonic and its operand field (0 when none).
Insn(o, n) == [op |-> o, operand |-> n]

\* The barrier option constants of core::arch::aarch64: the CRm field.
SY == 15
ST == 14
LD == 13
ISH == 11
ISHST == 10
ISHLD == 9
OSH == 3
OSHST == 2
OSHLD == 1

ArmBarrierConst(a) ==
    CASE a = "SY" -> SY [] a = "ST" -> ST [] a = "LD" -> LD
      [] a = "ISH" -> ISH [] a = "ISHST" -> ISHST [] a = "ISHLD" -> ISHLD
      [] a = "OSH" -> OSH [] a = "OSHST" -> OSHST [] a = "OSHLD" -> OSHLD

\* The instructions an intrinsic call compiles to.
LowerIntrinsic(s) ==
    CASE s.name = "__dsb" -> << Insn("DSB", ArmBarrierConst(s.arg)) >>
      [] s.name = "__dmb" -> << Insn("DMB", ArmBarrierConst(s.arg)) >>
      [] s.name = "_mm_mfence" -> << Insn("MFENCE", 0) >>
      [] s.name = "_mm_lfence" -> << Insn("LFENCE", 0) >>
      [] s.name = "_mm_sfence" -> << Insn("SFENCE", 0) >>

\* The bit of an access class in a RISC-V FENCE predecessor or successor set.
FenceBit(a) == CASE a = "i" -> 8 [] a = "o" -> 4 [] a = "r" -> 2 [] a = "w" -> 1

RECURSIVE FenceBits(_)
FenceBits(set) ==
    IF set = {} THEN 0
    ELSE LET a == CHOOSE x \in set : TRUE
         IN  FenceBit(a) + FenceBits(set \ {a})

Fence(pred, succ) == Insn("FENCE", FenceBits(pred) * 16 + FenceBits(succ))

\* The instructions the assembler emits for an asm! template.
Assemble(s) ==
    CASE s.name = "" -> << >>
      [] s.name = "dsb sy" -> << Insn("DSB", 15) >>
      [] s.name = "dsb ld" -> << Insn("DSB", 13) >>
      [] s.name = "dsb st" -> << Insn("DSB", 14) >>
      [] s.name = "dmb ish" -> << Insn("DMB", 11) >>
      [] s.name = "dmb ishld" -> << Insn("DMB", 9) >>
      [] s.name = "dmb ishst" -> << Insn("DMB", 10) >>
      [] s.name = "dmb osh" -> << Insn("DMB", 3) >>
      [] s.name = "dmb oshld" -> << Insn("DMB", 1) >>
      [] s.name = "dmb oshst" -> << Insn("DMB", 2) >>
      [] s.name = "fence iorw, iorw" -> << Fence({"i", "o", "r", "w"}, {"i", "o", "r", "w"}) >>
      [] s.name = "fence ir, ir" -> << Fence({"i", "r"}, {"i", "r"}) >>
      [] s.name = "fence ow, ow" -> << Fence({"o", "w"}, {"o", "w"}) >>
      [] s.name = "fence rw, rw" -> << Fence({"r", "w"}, {"r", "w"}) >>
      [] s.name = "fence r, r" -> << Fence({"r"}, {"r"}) >>
      [] s.name = "fence w, w" -> << Fence({"w"}, {"w"}) >>
      [] s.name = "mfence" -> << Insn("MFENCE", 0) >>
      [] s.name = "lfence" -> << Insn("LFENCE", 0) >>
      [] s.name = "sfence" -> << Insn("SFENCE", 0) >>

\* The instructions a statement compiles to.
Lower(s) ==
    IF s.form = "asm" THEN Assemble(s)
    ELSE IF s.form = "intrinsic" THEN LowerIntrinsic(s)
    ELSE << >>

RECURSIVE LowerAll(_)
LowerAll(stmts) ==
    IF stmts = << >> THEN << >> ELSE Lower(Head(stmts)) \o LowerAll(Tail(stmts))

(* -------------------------------------------- what an instruction orders *)

\* Access classes: memory reads and writes, device input and output.
Access == {"r", "w", "i", "o"}

Loads == {"r", "i"}

Stores == {"w", "o"}

\* Who observes the order: other cores, DMA-capable devices, MMIO devices.
Observer == {"cpu", "dma", "device"}

\* The shareability domain in bits 3:2 of CRm.
ArmDomain(crm) ==
    CASE crm \div 4 = 0 -> {"cpu", "dma"}
      [] crm \div 4 = 1 -> {}
      [] crm \div 4 = 2 -> {"cpu"}
      [] crm \div 4 = 3 -> Observer

\* The access types in bits 1:0 of CRm: before the barrier, after it.
ArmTypes(crm) ==
    CASE crm % 4 = 1 -> Loads \X Access
      [] crm % 4 = 2 -> Stores \X Stores
      [] OTHER -> Access \X Access

\* The access classes named by a 4-bit FENCE set.
FenceSet(bits) == {a \in Access : (bits \div FenceBit(a)) % 2 = 1}

\* The orderings an instruction enforces: <<earlier access, later access, observer>>.
Orders(insn) ==
    CASE insn.op \in {"DSB", "DMB"} ->
            {<<p[1], p[2], o>> : p \in ArmTypes(insn.operand), o \in ArmDomain(insn.operand)}
      [] insn.op = "FENCE" ->
            {<<a, b, o>> : a \in FenceSet(insn.operand \div 16),
                           b \in FenceSet(insn.operand % 16), o \in Observer}
      [] insn.op = "MFENCE" -> {<<a, b, o>> : a \in Access, b \in Access, o \in Observer}
      [] insn.op = "LFENCE" -> {<<a, b, o>> : a \in Loads, b \in Access, o \in Observer}
      [] insn.op = "SFENCE" -> {<<a, b, o>> : a \in Stores, b \in Stores, o \in Observer}
      [] OTHER -> {}

RECURSIVE OrdersAll(_)
OrdersAll(insns) ==
    IF insns = << >> THEN {} ELSE Orders(Head(insns)) \cup OrdersAll(Tail(insns))

IsFence(insn) == insn.op \in {"DSB", "DMB", "FENCE", "MFENCE", "LFENCE", "SFENCE"}

\* The access classes a kind is documented to order.
KindAccess(kind) ==
    CASE kind = "Mmio" -> Access
      [] kind \in {"Smp", "Dma"} -> {"r", "w"}
      [] OTHER -> {}

\* The observers a kind is documented to order them for.
KindObservers(kind) ==
    CASE kind = "Mmio" -> Observer
      [] kind = "Smp" -> {"cpu"}
      [] kind = "Dma" -> {"cpu", "dma"}
      [] OTHER -> {}

\* The directions a type is documented to order.
TypePairs(ty) ==
    CASE ty = "General" -> Access \X Access
      [] ty = "Read" -> Loads \X Loads
      [] ty = "Write" -> Stores \X Stores

\* The orderings the documentation of (kind, ty) asks for.
Required(kind, ty) ==
    {<<p[1], p[2], o>> : p \in {q \in TypePairs(ty) : q[1] \in KindAccess(kind) /\ q[2] \in KindAccess(kind)},
                         o \in KindObservers(kind)}

(* --------------------------------------------------- build-time selection *)

\* The target architectures a build is tried for: the five supported ones and two others.
TargetArchs == {"aarch64", "riscv32", "riscv64", "x86", "x86_64", "arm", "wasm32"}

SupportedArchs == {"aarch64", "riscv32", "riscv64", "x86", "x86_64"}

\* Faulty variant, for sensitivity: the RISC-V branch tests riscv64 alone.
cfg_if_chain_no_riscv32 == <<
    [cfg |-> {"aarch64"},       module |-> "aarch64"],
    [cfg |-> {"riscv64"},       module |-> "riscv"],
    [cfg |-> {"x86", "x86_64"}, module |-> "x86"] >>

\* The branches of the cfg_if! chain: the target_arch values of each cfg and its module.
cfg_if_chain == <<
    [cfg |-> {"aarch64"},            module |-> "aarch64"],
    [cfg |-> {"riscv32", "riscv64"}, module |-> "riscv"],
    [cfg |-> {"x86", "x86_64"},      module |-> "x86"] >>

\* cfg_if! compiles the first branch whose cfg holds; the chain has no else branch.
CompiledBackends(arch) ==
    {cfg_if_chain[n].module : n \in {m \in DOMAIN cfg_if_chain :
        /\ arch \in cfg_if_chain[m].cfg
        /\ \A l \in DOMAIN cfg_if_chain : l < m => arch \notin cfg_if_chain[l].cfg}}

\* Whether the cfg attributes of the compiled backend keep its intrinsic variant.
UsesIntrinsics(backend) ==
    CASE backend = "aarch64" -> stdarch /\ nightly
      [] backend = "x86" -> stdarch
      [] OTHER -> FALSE

aarch64_mem_barrier(kind, ty) ==
    Match(IF stdarch /\ nightly THEN aarch64_intrinsic_arms ELSE aarch64_asm_arms, kind, ty)

riscv_mem_barrier(kind, ty) == Match(riscv_arms, kind, ty)

x86_mem_barrier(kind, ty) ==
    Match(IF stdarch THEN x86_intrinsic_arms ELSE x86_asm_arms, kind, ty)

\* Faulty variant, for sensitivity: the backend remembers the pairs it has fenced for and skips a repeated fence.
arch_mem_barrier_once(kind, ty) ==
    IF \E n \in DOMAIN log : log[n].cpu_kind = kind /\ log[n].ty = ty
    THEN Asm("")
    ELSE LET backends == CompiledBackends(target_arch)
         IN  CASE backends = {"aarch64"} -> aarch64_mem_barrier(kind, ty)
               [] backends = {"riscv"} -> riscv_mem_barrier(kind, ty)
               [] backends = {"x86"} -> x86_mem_barrier(kind, ty)
               [] OTHER -> NoStmt

\* arch::mem_barrier: the function the glob re-export of the compiled backend provides.
arch_mem_barrier(kind, ty) ==
    LET backends == CompiledBackends(target_arch)
    IN  CASE backends = {"aarch64"} -> aarch64_mem_barrier(kind, ty)
          [] backends = {"riscv"} -> riscv_mem_barrier(kind, ty)
          [] backends = {"x86"} -> x86_mem_barrier(kind, ty)
          [] OTHER -> NoStmt

\* The intrinsic variant of a backend ("none": the backend has none).
IntrinsicArms(backend) ==
    CASE backend = "aarch64" -> aarch64_intrinsic_arms
      [] backend = "x86" -> x86_intrinsic_arms
      [] OTHER -> << >>

\* The inline-assembly variant of a backend.
AsmArms(backend) ==
    CASE backend = "aarch64" -> aarch64_asm_arms
      [] backend = "x86" -> x86_asm_arms
      [] backend = "riscv" -> riscv_arms
      [] OTHER -> << >>

\* The feature stdarch asks for the implementation based on core::arch intrinsics,
\* on a backend that has one.
IntrinsicRequested ==
    stdarch /\ \E b \in CompiledBackends(target_arch) : IntrinsicArms(b) # << >>

\* The intrinsics the compiled backend would call are usable in this configuration:
\* the x86 ones are stable, the AArch64 ones need the feature nightly and a nightly compiler.
IntrinsicProvided ==
    CASE CompiledBackends(target_arch) = {"x86"} -> TRUE
      [] CompiledBackends(target_arch) = {"aarch64"} -> nightly /\ toolchain = "nightly"
      [] OTHER -> FALSE

\* The crate attribute feature(stdarch_arm_barrier) is accepted by a nightly compiler only.
FeatureGateOk ==
    (target_arch = "aarch64" /\ stdarch /\ nightly) => toolchain = "nightly"

\* The match of every backend function that is compiled covers all pairs.
MatchesExhaustive ==
    \A kind \in CpuBarrierKind : \A ty \in BarrierType : arch_mem_barrier(kind, ty) # NoStmt

\* The crate compiles: arch::mem_barrier resolves to one function, and the above.
Compiles ==
    /\ Cardinality(CompiledBackends(target_arch)) = 1
    /\ FeatureGateOk
    /\ MatchesExhaustive

(* ------------------------------------------------------------ dispatcher *)

compiler_barrier == Asm("")

\* The translation of the public kind into the backend's kind.
CpuKindOf(kind) ==
    CASE kind = "Mmio" -> "Mmio" [] kind = "Smp" -> "Smp" [] kind = "Dma" -> "Dma"

\* Faulty variant, for sensitivity: the Compiler arm does not return and falls through to the backend.
mem_barrier_fallthrough(kind, ty) ==
    IF kind = "Compiler"
    THEN [path |-> "compiler", cpu_kind |-> "Mmio",
          stmts |-> << compiler_barrier, arch_mem_barrier("Mmio", ty) >>]
    ELSE [path |-> "arch", cpu_kind |-> CpuKindOf(kind),
          stmts |-> << arch_mem_barrier(CpuKindOf(kind), ty) >>]

\* mem_barrier: the path taken, the kind forwarded and the statements run.
mem_barrier(kind, ty) ==
    IF kind = "Compiler"
    THEN [path |-> "compiler", cpu_kind |-> "none", stmts |-> << compiler_barrier >>]
    ELSE [path |-> "arch", cpu_kind |-> CpuKindOf(kind),
          stmts |-> << arch_mem_barrier(CpuKindOf(kind), ty) >>]

(* --------------------------------------------------------------- machine *)

Word == 0 .. MaxWord

\* A fence instruction writes no register, flag, stack slot or memory location.
Exec(m, insn) ==
    IF IsFence(insn) THEN [m EXCEPT !.fences = @ + 1] ELSE m

RECURSIVE Run(_, _)
Run(m, insns) ==
    IF insns = << >> THEN m ELSE Run(Exec(m, Head(insns)), Tail(insns))

\* What a call leaves behind for inspection.
CallRecord(c, kind, ty, m) ==
    LET call == mem_barrier(kind, ty)
        insns == LowerAll(call.stmts)
    IN  [ctx |-> c, kind |-> kind, ty |-> ty, path |-> call.path,
         cpu_kind |-> call.cpu_kind, stmts |-> call.stmts, insns |-> insns,
         pre |-> m, post |-> Run(m, insns)]

(* --------------------------------------------------------------- actions *)

Configs ==
    /\ target_arch \in TargetArchs
    /\ stdarch \in BOOLEAN
    /\ nightly \in BOOLEAN
    /\ toolchain \in {"stable", "nightly"}
    /\ build = "pending"
    /\ pc = "loop"
    /\ ki = 1
    /\ ti = 1
    /\ trace = << >>
    /\ log = << >>

Init ==
    /\ Configs
    /\ machine \in [regs : Word, flags : Word, sp : Word, mem : Word, fences : {0}]

\* Compilation of the crate for the configuration.
Build ==
    /\ build = "pending"
    /\ build' = IF Compiles THEN "ok" ELSE "failed"
    /\ UNCHANGED <<target_arch, stdarch, nightly, toolchain, pc, ki, ti, trace, machine, log>>

\* One iteration of the nested loops of test_memory_barrier and of the example's main.
Iterate ==
    /\ build = "ok"
    /\ pc = "loop"
    /\ LET rec == CallRecord("main", LoopKinds[ki], LoopTypes[ti], machine)
       IN  /\ trace' = Append(trace, rec)
           /\ machine' = rec.post
    /\ ti' = IF ti < Len(LoopTypes) THEN ti + 1 ELSE 1
    /\ ki' = IF ti < Len(LoopTypes) THEN ki ELSE ki + 1
    /\ pc' = IF ti = Len(LoopTypes) /\ ki = Len(LoopKinds) THEN "done" ELSE "loop"
    /\ UNCHANGED <<target_arch, stdarch, nightly, toolchain, build, log>>

Next == Build \/ Iterate

Spec == Init /\ [][Next]_vars

\* The loop is straight-line code: once started it runs on.
FairSpec == Init /\ [][Next]_vars /\ WF_vars(Next)

\* The execution contexts that call mem_barrier: a core and an interrupt handler.
Contexts == {"core", "irq"}

ConcInit ==
    /\ Configs
    /\ machine = [regs |-> 0, flags |-> 0, sp |-> 0, mem |-> 0, fences |-> 0]

\* A call of mem_barrier by context c, on the machine both contexts run on.
Call(c, kind, ty) ==
    /\ build = "ok"
    /\ Len(log) < MaxCalls
    /\ LET rec == CallRecord(c, kind, ty, machine)
       IN  /\ log' = Append(log, rec)
           /\ machine' = rec.post
    /\ UNCHANGED <<target_arch, stdarch, nightly, toolchain, build, pc, ki, ti, trace>>

ConcNext ==
    \/ Build
    \/ \E c \in Contexts : \E kind \in BarrierKind : \E ty \in BarrierType : Call(c, kind, ty)

ConcSpec == ConcInit /\ [][ConcNext]_vars

(* ---------------------------------------------------------------- claims *)

\* The records of the smoke loop's calls that went to the architecture backend.
ArchCalls == {n \in DOMAIN trace : trace[n].kind # "Compiler"}

\* The number of fence instructions in a sequence of instructions.
RECURSIVE FenceCount(_)
FenceCount(insns) ==
    IF insns = << >> THEN 0
    ELSE (IF IsFence(Head(insns)) THEN 1 ELSE 0) + FenceCount(Tail(insns))

\* The (kind, type) pairs the smoke loop has called so far.
PairsCalled == {<<trace[n].kind, trace[n].ty>> : n \in DOMAIN trace}

\* A call took one path and ran the one statement of that path.
OnePath(rec) ==
    /\ rec.path \in {"compiler", "arch"}
    /\ rec.path = "compiler" <=> rec.kind = "Compiler"
    /\ Len(rec.stmts) = 1
    /\ rec.stmts[1] # NoStmt

LoopCompleted ==
    /\ pc = "done"
    /\ PairsCalled = BarrierKind \X BarrierType
    /\ Len(trace) = 12
    /\ \A n \in DOMAIN trace : OnePath(trace[n])

\* C1: on every supported architecture, in every feature configuration the
\* toolchain accepts, the smoke loop over the 12 (kind, type) pairs runs to
\* completion, and each of its calls takes exactly one path and returns.
C1_Totality ==
    (target_arch \in SupportedArchs /\ FeatureGateOk) ~> LoopCompleted

C1_Witness ==
    /\ LoopCompleted
    /\ target_arch = "riscv32"

\* C2: a call with kind Compiler takes the compiler-only path, forwards nothing
\* to the architecture backend and executes no instruction, whatever the type
\* and the target architecture: its effect is the same constant in every case.
C2_CompilerOnly ==
    \A n \in DOMAIN trace :
        trace[n].kind = "Compiler" =>
            /\ trace[n].path = "compiler"
            /\ trace[n].cpu_kind = "none"
            /\ trace[n].stmts = << Asm("") >>
            /\ trace[n].insns = << >>
            /\ trace[n].post = trace[n].pre

C2_Witness ==
    /\ pc = "done"
    /\ target_arch = "aarch64"
    /\ {trace[n].ty : n \in DOMAIN trace \ ArchCalls} = BarrierType

\* C3: a call executes exactly one fence instruction when its kind is Mmio, Smp
\* or Dma and none when it is Compiler, and leaves registers, flags, the stack
\* pointer and memory as they were; every asm! statement it runs declares
\* preserves_flags and nostack.
C3_OneFenceNoOtherEffect ==
    \A n \in DOMAIN trace :
        LET rec == trace[n]
            want == IF rec.kind = "Compiler" THEN 0 ELSE 1
        IN  /\ FenceCount(rec.insns) = want
            /\ Len(rec.insns) = want
            /\ rec.post.fences = rec.pre.fences + want
            /\ rec.post.regs = rec.pre.regs
            /\ rec.post.flags = rec.pre.flags
            /\ rec.post.sp = rec.pre.sp
            /\ rec.post.mem = rec.pre.mem
            /\ \A k \in DOMAIN rec.stmts :
                   rec.stmts[k].form = "asm" =>
                       {"preserves_flags", "nostack"} \subseteq rec.stmts[k].options
            /\ n > 1 => rec.pre = trace[n - 1].post
            /\ n = Len(trace) => machine = rec.post

C3_Witness ==
    /\ pc = "done"
    /\ target_arch = "x86_64"
    /\ ~stdarch
    /\ machine.fences = 9
    /\ machine.flags = 1

\* C4: for a fixed kind among Mmio, Smp and Dma, the orderings enforced by the
\* instruction run for General include those of the instructions run for Read
\* and for Write, on every backend.
C4_GeneralStrongest ==
    \A a \in ArchCalls : \A b \in ArchCalls :
        (trace[a].kind = trace[b].kind /\ trace[a].ty = "General") =>
            OrdersAll(trace[b].insns) \subseteq OrdersAll(trace[a].insns)

C4_Witness ==
    /\ pc = "done"
    /\ target_arch = "riscv64"
    /\ OrdersAll(trace[2].insns) \cup OrdersAll(trace[3].insns) # {}
    /\ OrdersAll(trace[2].insns) \cup OrdersAll(trace[3].insns) # OrdersAll(trace[1].insns)

\* C5: for every type, the instruction run for Mmio enforces every ordering,
\* for every observer, that the instructions run for Smp and for Dma enforce,
\* and the instruction run for any kind enforces at least the orderings the
\* documentation of that kind and type asks for.
C5_MmioStrongest ==
    /\ \A a \in ArchCalls : \A b \in ArchCalls :
           (trace[a].kind = "Mmio" /\ trace[a].ty = trace[b].ty) =>
               OrdersAll(trace[b].insns) \subseteq OrdersAll(trace[a].insns)
    /\ \A a \in ArchCalls :
           Required(trace[a].kind, trace[a].ty) \subseteq OrdersAll(trace[a].insns)

C5_Witness ==
    /\ pc = "done"
    /\ target_arch = "aarch64"
    /\ ~stdarch
    /\ OrdersAll(trace[4].insns) # OrdersAll(trace[1].insns)
    /\ <<"o", "i", "device">> \in OrdersAll(trace[1].insns)

\* C6: on AArch64 and on x86 the intrinsic variant and the inline-assembly
\* variant of the backend compile to the same machine instruction with the same
\* operand for every (kind, type) pair, so the instruction a call executes is
\* the one either variant gives; the intrinsic variant is the one used when its
\* cfg holds.
C6_VariantsAgree ==
    \A n \in ArchCalls : \A b \in CompiledBackends(target_arch) :
        /\ trace[n].stmts[1].form = (IF UsesIntrinsics(b) THEN "intrinsic" ELSE "asm")
        /\ IntrinsicArms(b) # << >> =>
               /\ trace[n].insns = Lower(Match(IntrinsicArms(b), trace[n].cpu_kind, trace[n].ty))
               /\ trace[n].insns = Lower(Match(AsmArms(b), trace[n].cpu_kind, trace[n].ty))

C6_Witness ==
    /\ pc = "done"
    /\ target_arch = "aarch64"
    /\ stdarch
    /\ nightly
    /\ trace[8].stmts[1] = Intrinsic("__dmb", "OSHLD")
    /\ trace[8].insns = << Insn("DMB", 1) >>

\* C7: each of aarch64, riscv32, riscv64, x86 and x86_64 compiles exactly one
\* backend, its own; any other target architecture compiles none, and then the
\* build never succeeds and no call of mem_barrier ever runs.
C7_BackendSelection ==
    /\ target_arch = "aarch64" => CompiledBackends(target_arch) = {"aarch64"}
    /\ target_arch \in {"riscv32", "riscv64"} => CompiledBackends(target_arch) = {"riscv"}
    /\ target_arch \in {"x86", "x86_64"} => CompiledBackends(target_arch) = {"x86"}
    /\ target_arch \in SupportedArchs => Cardinality(CompiledBackends(target_arch)) = 1
    /\ target_arch \notin SupportedArchs =>
           /\ CompiledBackends(target_arch) = {}
           /\ build # "ok"
           /\ trace = << >>

C7_Witness ==
    /\ target_arch = "wasm32"
    /\ build = "failed"

\* C8 as stated: whenever the intrinsic-based implementation is requested and
\* the intrinsic it needs is not provided, the build fails.
C8_Original ==
    (build # "pending" /\ IntrinsicRequested /\ ~IntrinsicProvided) => build = "failed"

\* C8 as amended: whenever the intrinsic-based implementation is requested and
\* the intrinsic it needs is not provided, either the intrinsic variant is
\* compiled and the build fails, or the inline-assembly variant is compiled
\* instead and every call executes exactly the one fence instruction the
\* intrinsic variant would have executed, which enforces what the kind and type
\* ask for: never a weaker barrier and never none.
C8_FailsOrEquivalentFallback ==
    (build # "pending" /\ IntrinsicRequested /\ ~IntrinsicProvided) =>
        \A b \in CompiledBackends(target_arch) :
            IF UsesIntrinsics(b)
            THEN build = "failed"
            ELSE \A n \in ArchCalls :
                    /\ trace[n].stmts[1].form = "asm"
                    /\ trace[n].insns = Lower(Match(IntrinsicArms(b), trace[n].cpu_kind, trace[n].ty))
                    /\ FenceCount(trace[n].insns) = 1
                    /\ Required(trace[n].kind, trace[n].ty) \subseteq OrdersAll(trace[n].insns)

C8_Witness ==
    /\ pc = "done"
    /\ build = "ok"
    /\ target_arch = "aarch64"
    /\ IntrinsicRequested
    /\ ~IntrinsicProvided
    /\ trace[4].stmts[1] = Asm("dmb ish")

\* C9: for every type, x86 runs the same instruction for Mmio, Smp and Dma
\* (MFENCE for General, LFENCE for Read, SFENCE for Write); RISC-V runs the same
\* FENCE, with I/O bits, for Mmio and Dma and another, without I/O bits, for
\* Smp; AArch64 runs three different instructions: DSB for Mmio, DMB
\* inner-shareable for Smp, DMB outer-shareable for Dma.
C9_KindCollapsing ==
    \A a \in ArchCalls : \A b \in ArchCalls :
        LET ra == trace[a]
            rb == trace[b]
            ia == ra.insns[1]
        IN  trace[a].ty = trace[b].ty =>
              /\ CompiledBackends(target_arch) = {"x86"} =>
                    /\ ra.insns = rb.insns
                    /\ ra.ty = "General" => ia = Insn("MFENCE", 0)
                    /\ ra.ty = "Read" => ia = Insn("LFENCE", 0)
                    /\ ra.ty = "Write" => ia = Insn("SFENCE", 0)
              /\ CompiledBackends(target_arch) = {"riscv"} =>
                    /\ ia.op = "FENCE"
                    /\ {ra.kind, rb.kind} \subseteq {"Mmio", "Dma"} => ra.insns = rb.insns
                    /\ (ra.kind = "Smp" /\ rb.kind # "Smp") => ra.insns # rb.insns
                    /\ ra.kind \in {"Mmio", "Dma"} =>
                          /\ FenceSet(ia.operand \div 16) \cap {"i", "o"} # {}
                          /\ FenceSet(ia.operand % 16) \cap {"i", "o"} # {}
                    /\ ra.kind = "Smp" =>
                          /\ FenceSet(ia.operand \div 16) \cap {"i", "o"} = {}
                          /\ FenceSet(ia.operand % 16) \cap {"i", "o"} = {}
              /\ CompiledBackends(target_arch) = {"aarch64"} =>
                    /\ ra.kind # rb.kind => ra.insns # rb.insns
                    /\ ra.kind = "Mmio" => ia.op = "DSB"
                    /\ ra.kind = "Smp" => (ia.op = "DMB" /\ ia.operand \div 4 = ISH \div 4)
                    /\ ra.kind = "Dma" => (ia.op = "DMB" /\ ia.operand \div 4 = OSH \div 4)

C9_Witness ==
    /\ pc = "done"
    /\ target_arch = "riscv32"
    /\ trace[1].insns = trace[7].insns
    /\ trace[4].insns # trace[1].insns

====
